---- MODULE Spec2Model ----
(***************************************************************************)
(* Authentication client of the FTO site: the Session Manager              *)
(* (auth/authState), the API client with token refresh (api/client) and    *)
(* the auth service (auth/authService), as a state machine.                *)
(*                                                                         *)
(* One step of the model is one run-to-completion of the page's event      *)
(* loop: the code between two suspension points (await fetch / await       *)
(* response.json()).  Reading the body is folded into the delivery of the  *)
(* response: the code reads and writes no shared state between the two.    *)
(*                                                                         *)
(* The listeners of the auth:* events (auth form, reports display) run     *)
(* synchronously inside the dispatching step.  None of them writes the     *)
(* storage; the requests they start are operations of their own.  The      *)
(* events a step dispatches are recorded in the frame of the operation.    *)
(*                                                                         *)
(* Spec      : the operations on a working key-value store, two in flight. *)
(* SpecStore : the Session Manager operations on a store whose accesses    *)
(*             can throw.                                                  *)
(***************************************************************************)
EXTENDS Integers, Sequences, FiniteSets, TLC

\* ---------------------------------------------------------------- bounds
\* refresh exchanges the server lets one apiRequest call start
MaxRefresh == 2

\* listeners registered on the window at one time
MaxListeners == 3

\* card animations running at one time
MaxTimelines == 2

\* reports in the list the server answers with
MaxReports == 2

\* requests of the reports display in flight at one time
MaxLoads == 2

\* authentication changes the reports display handles
MaxAuthChanges == 2

\* callbacks of one kind (timer, animation frame) the mobile navigation has pending
MaxPending == 2

\* the client operations that can be in flight at the same time
Procs == {"p1", "p2"}

\* ------------------------------------------------------------- JS values
\* JS null / undefined where an object is expected
null == [null |-> TRUE]
\* what localStorage.getItem returns for a key that is not stored
noItem == "<null>"
\* a rejected promise / thrown exception where a value is expected
thrown == [thrown |-> TRUE]

\* !v for a value read from storage: null and '' are falsy
Falsy(v) == v = noItem \/ v = ""

\* ------------------------------------------------------------ data sets
\* token pairs the server hands out (POST /login, POST /refresh)
TokenPairs ==
  { [access_token |-> "a1", refresh_token |-> "r1", token_type |-> "bearer"],
    [access_token |-> "a2", refresh_token |-> "r2", token_type |-> "bearer"] }

\* user profiles: custom_permissions is a JSON string with the array of
\* permissions
UserViewer == [id |-> 1, custom_permissions |-> "[\"reports.view\"]"]

UserAdmin == [id |-> 2, custom_permissions |-> "[\"admin\"]"]

UserNoPermissions == [id |-> 3, custom_permissions |-> "[]"]

UserMalformed == [id |-> 4, custom_permissions |-> "reports.view,"]

\* user profiles the server hands out (GET /users/me)
Users == { UserViewer, UserAdmin }

\* every profile a caller can hand to setStoredUser
AllUsers == Users \cup { UserNoPermissions, UserMalformed }

\* JSON.stringify(user)
JSONstringify(u) ==
  "{\"id\":" \o ToString(u.id) \o ",\"custom_permissions\":" \o u.custom_permissions \o "}"

\* JSON.parse(text) of a stored profile: throws on anything that is not a
\* serialized profile
JSONparse(s) ==
  IF \E u \in AllUsers : JSONstringify(u) = s
    THEN CHOOSE u \in AllUsers : JSONstringify(u) = s
    ELSE thrown

\* ---------------------------------------------------------- storage keys
STORAGE_KEYS ==
  [ACCESS_TOKEN |-> "fto_access_token",
   REFRESH_TOKEN |-> "fto_refresh_token",
   USER |-> "fto_user"]

StorageKeys == {STORAGE_KEYS.ACCESS_TOKEN, STORAGE_KEYS.REFRESH_TOKEN, STORAGE_KEYS.USER}

\* localStorage.getItem / setItem / removeItem on a working store
getItem(ls, k) == ls[k]

setItem(ls, k, v) == [ls EXCEPT ![k] = v]

removeItem(ls, k) == [ls EXCEPT ![k] = noItem]

EmptyStorage == [k \in StorageKeys |-> noItem]

\* ------------------------------------------------ Session Manager: reads
\* getTokens that tests the access token only
getTokens_accessOnly(ls) ==
  LET accessToken == getItem(ls, STORAGE_KEYS.ACCESS_TOKEN)
      refreshToken == getItem(ls, STORAGE_KEYS.REFRESH_TOKEN)
  IN IF Falsy(accessToken)
       THEN null
       ELSE [access_token |-> accessToken, refresh_token |-> refreshToken]

getTokens(ls) ==
  LET accessToken == getItem(ls, STORAGE_KEYS.ACCESS_TOKEN)
      refreshToken == getItem(ls, STORAGE_KEYS.REFRESH_TOKEN)
  IN IF Falsy(accessToken) \/ Falsy(refreshToken)
       THEN null
       ELSE [access_token |-> accessToken, refresh_token |-> refreshToken]

getStoredUser(ls) ==
  LET userJson == getItem(ls, STORAGE_KEYS.USER)
  IN IF Falsy(userJson)
       THEN null
       ELSE IF JSONparse(userJson) = thrown THEN null ELSE JSONparse(userJson)

\* isAuthenticated that looks at the access token only
isAuthenticated_accessOnly(ls) ==
  ~Falsy(getItem(ls, STORAGE_KEYS.ACCESS_TOKEN))

isAuthenticated(ls) ==
  LET tokens == getTokens(ls)
  IN tokens # null /\ tokens.access_token # ""

\* JSON.parse(user.custom_permissions): the serialized permission lists the
\* profiles carry; anything else does not parse
JSONparsePermissions(s) ==
  IF s = "[\"reports.view\"]" THEN [array |-> <<"reports.view">>]
  ELSE IF s = "[\"admin\"]" THEN [array |-> <<"admin">>]
  ELSE IF s = "[]" THEN [array |-> <<>>]
  ELSE thrown

\* permissions.includes(x)
includes(permissions, x) == \E i \in 1..Len(permissions) : permissions[i] = x

\* hasPermission without the "admin" sentinel
hasPermission_noAdmin(ls, permission) ==
  LET user == getStoredUser(ls)
  IN IF user = null
       THEN FALSE
       ELSE LET parsed == JSONparsePermissions(user.custom_permissions)
            IN IF parsed = thrown
                 THEN FALSE
                 ELSE includes(parsed.array, permission)

hasPermission(ls, permission) ==
  LET user == getStoredUser(ls)
  IN IF user = null
       THEN FALSE
       ELSE LET parsed == JSONparsePermissions(user.custom_permissions)
            IN IF parsed = thrown
                 THEN FALSE
                 ELSE LET permissions == parsed.array
                      IN includes(permissions, permission) \/ includes(permissions, "admin")

\* ------------------------------------------------- auth card component
\* The four cards of the popup. A card is shown when its display is not
\* 'none' and its visibility is not 'hidden'. A timeline is one running
\* animation: phase 0 until its exit tween completes, phase 1 until its
\* entry tween completes.
Cards == {"login", "logged", "forgot", "reset"}

\* the component before any script has touched it (a page without it)
NoCard ==
  [currentCard |-> "login",
   display     |-> [c \in Cards |-> FALSE],
   visibility  |-> [c \in Cards |-> TRUE],
   timelines   |-> <<>>]

showCard(cd, cardType) ==
  [cd EXCEPT !.display = [c \in Cards |-> c = cardType],
             !.currentCard = cardType]

\* the synchronous part: the incoming card is prepared (displayed, hidden)
\* and the timeline is started
\* animateCardTransition that prepares the incoming card visible
animateCardTransition_entersAtOnce(cd, from, to) ==
  [cd EXCEPT !.display[to] = TRUE,
             !.visibility[to] = TRUE,
             !.timelines = Append(@, [from |-> from, to |-> to, phase |-> 0,
                                      exit |-> TRUE, enter |-> TRUE])]

\* A timeline keeps its exit tween (on the outgoing card) and its entry
\* tweens (on the incoming card) until they are killed.
animateCardTransition(cd, from, to) ==
  [cd EXCEPT !.display[to] = TRUE,
             !.visibility[to] = FALSE,
             !.timelines = Append(@, [from |-> from, to |-> to, phase |-> 0,
                                      exit |-> TRUE, enter |-> TRUE])]

\* the exit tween of timeline i completes: the outgoing card is hidden and
\* the incoming card made visible, by the tweens still in the timeline
exitComplete(cd, i) ==
  LET tl == cd.timelines[i]
  IN [cd EXCEPT !.display[tl.from] = IF tl.exit THEN FALSE ELSE @,
                !.visibility[tl.to] = IF tl.enter THEN TRUE ELSE @,
                !.timelines[i].phase = 1]

\* gsap.killTweensOf(card): the tweens of the card leave their timelines
killTweensOf(cd, c) ==
  [cd EXCEPT !.timelines =
     [i \in 1..Len(@) |-> [@[i] EXCEPT !.exit = @ /\ cd.timelines[i].from # c,
                                       !.enter = @ /\ cd.timelines[i].to # c]]]

\* the oldest timeline completes
timelineComplete(cd) ==
  [cd EXCEPT !.currentCard = Head(cd.timelines).to,
             !.timelines = Tail(@)]

\* driven (history, for the claims) is the card the last call asked for;
\* it is forgotten when the user asks for another card
updateUIBasedOnAuthState(st) ==
  [st EXCEPT !.cd = IF isAuthenticated(st.ls) THEN showCard(@, "logged")
                                                ELSE showCard(@, "login"),
             !.pg.driven = IF isAuthenticated(st.ls) THEN "logged" ELSE "login"]

\* --------------------------------------------------------- reports service
\* Strings the filters look into are sequences of characters.
toLowerCase(s) ==
  [i \in 1..Len(s) |-> CASE s[i] = "A" -> "a"
                         [] s[i] = "B" -> "b"
                         [] OTHER -> s[i]]

\* String.prototype.includes: s.includes(t)
stringIncludes(s, t) ==
  \E i \in 0..(Len(s) - Len(t)) : SubSeq(s, i + 1, i + Len(t)) = t

\* an optional property of an object is a field the record has or not
Has(o, k) == k \in DOMAIN o

Restrict(o, D) == [k \in D |-> o[k]]

\* the filters of getFilteredReports without the filter on the active flag
applyFilters_ignoresActive(reports, filters) ==
  IF filters = null
    THEN reports
    ELSE
      LET byId(r) == r.category_id = filters.categoryId
          byNames(r) ==
            LET reportCategoryName ==
                  IF Has(r, "category_name") THEN toLowerCase(r.category_name) ELSE <<>>
            IN \E i \in 1..Len(filters.categoryNames) :
                 stringIncludes(reportCategoryName, filters.categoryNames[i])
          bySearch(r) == stringIncludes(toLowerCase(r.name), toLowerCase(filters.search))
          r1 == IF Has(filters, "categoryId") THEN SelectSeq(reports, byId) ELSE reports
          r2 == IF Has(filters, "categoryNames") /\ Len(filters.categoryNames) > 0
                  THEN SelectSeq(r1, byNames) ELSE r1
          r3 == IF Has(filters, "search") /\ filters.search # <<>>
                  THEN SelectSeq(r2, bySearch) ELSE r2
      IN r3

\* the body of getFilteredReports after getReports has answered with
\* reports: the four filters, one after the other, each when it is supplied
applyFilters(reports, filters) ==
  IF filters = null
    THEN reports
    ELSE
      LET byId(r) == r.category_id = filters.categoryId
          byNames(r) ==
            LET reportCategoryName ==
                  IF Has(r, "category_name") THEN toLowerCase(r.category_name) ELSE <<>>
            IN \E i \in 1..Len(filters.categoryNames) :
                 stringIncludes(reportCategoryName, filters.categoryNames[i])
          bySearch(r) == stringIncludes(toLowerCase(r.name), toLowerCase(filters.search))
          byActive(r) == r.active = filters.active
          r1 == IF Has(filters, "categoryId") THEN SelectSeq(reports, byId) ELSE reports
          r2 == IF Has(filters, "categoryNames") /\ Len(filters.categoryNames) > 0
                  THEN SelectSeq(r1, byNames) ELSE r1
          r3 == IF Has(filters, "search") /\ filters.search # <<>>
                  THEN SelectSeq(r2, bySearch) ELSE r2
          r4 == IF Has(filters, "active") THEN SelectSeq(r3, byActive) ELSE r3
      IN r4

\* the module state of the reports service, and the last call of
\* getFilteredReports with what it returned
\* (a cache is null or [array |-> the list]),
\* and the state of the reports display: its filters, its categories, what
\* the list shows, and its loads waiting for an answer (stage "categories"
\* inside loadCategories, stage "reports" inside loadReports).
\* History, for the claims: epoch counts the authentication changes the
\* display has handled; issued, reportsIssued and categoriesIssued are the
\* epoch in which the request of a load, of the cached reports and of the
\* cached categories was sent; rendered.at is the epoch of the rendering.
NoReports ==
  [reportsCache |-> null, categoriesCache |-> null, filters |-> null, result |-> null,
   currentFilters |-> [active |-> TRUE], categories |-> <<>>, rendered |-> null,
   loads |-> <<>>, epoch |-> 0, reportsIssued |-> 0, categoriesIssued |-> 0]

\* getFilteredReports(filters) when getReports answers from the cache
getFilteredReports(rs, filters) ==
  [rs EXCEPT !.filters = filters,
             !.result = [success |-> TRUE, data |-> applyFilters(rs.reportsCache.array, filters)]]

clearAllCache(rs) ==
  [rs EXCEPT !.reportsCache = null, !.categoriesCache = null]

\* s without its i-th element
without(s, i) == SubSeq(s, 1, i - 1) \o SubSeq(s, i + 1, Len(s))

\* renderReports(reports), of a response whose request was sent in epoch issued
renderReports(rs, reports, issued) ==
  [rs EXCEPT !.rendered = [data |-> reports, issued |-> issued, at |-> rs.epoch]]

\* loadReports() up to its first wait: the filters are fixed, then the
\* cached reports are filtered and rendered, or GET /reports is sent
loadReports(rs) ==
  IF rs.reportsCache # null
    THEN LET answered == getFilteredReports(rs, rs.currentFilters)
         IN renderReports(answered, answered.result.data, rs.reportsIssued)
    ELSE [rs EXCEPT !.loads = Append(@, [stage |-> "reports", issued |-> rs.epoch,
                                         filters |-> rs.currentFilters])]

\* loadAllData() up to its first wait: loadCategories, answered from the
\* cache and followed by loadReports, or GET /categories is sent
loadAllData(rs) ==
  IF rs.categoriesCache # null
    THEN loadReports([rs EXCEPT !.categories = rs.categoriesCache.array])
    ELSE [rs EXCEPT !.loads = Append(@, [stage |-> "categories", issued |-> rs.epoch,
                                         filters |-> null])]

\* the listener of 'auth:tokens-updated' and of 'auth:logged-out'
onAuthChange(rs) ==
  loadAllData(clearAllCache([rs EXCEPT !.epoch = @ + 1]))

\* GET /categories of load i is answered: getCategories caches the data of
\* a success, loadCategories keeps them, and loadAllData goes on to loadReports
categoriesAnswered(rs, i, response) ==
  LET rest == [rs EXCEPT !.loads = without(@, i)]
  IN loadReports(IF response.success
                   THEN [rest EXCEPT !.categoriesCache = [array |-> response.data],
                                     !.categoriesIssued = rs.loads[i].issued,
                                     !.categories = response.data]
                   ELSE rest)

\* GET /reports of load i is answered: getReports caches the data of a
\* success, getFilteredReports filters them and loadReports renders them; a
\* failure is shown as the empty state
reportsAnswered(rs, i, response) ==
  LET rest == [rs EXCEPT !.loads = without(@, i)]
      load == rs.loads[i]
  IN IF response.success
       THEN renderReports([rest EXCEPT !.reportsCache = [array |-> response.data],
                                       !.reportsIssued = load.issued,
                                       !.filters = load.filters,
                                       !.result = [success |-> TRUE,
                                                   data |-> applyFilters(response.data,
                                                                         load.filters)]],
                          applyFilters(response.data, load.filters), load.issued)
       ELSE [rest EXCEPT !.filters = load.filters,
                         !.result = response,
                         !.rendered = null]

\* ------------------------------------------- login / reset slide component
\* Its own currentCard and isAnimating, and its running timeline (phase
\* "exit", then "enter"); the cards it moves are the login and reset cards of
\* the auth card component.
NoSlide == [currentCard |-> "login", isAnimating |-> FALSE, to |-> "login", phase |-> "none"]

\* -------------------------------------------------------- mobile navigation
\* The button's is-active class, the body's overflow, the menu's transform
\* and display,
\* the background's opacity, the icon displayed, whether the click listener
\* is on the button, and the callbacks pending: the 300 ms timers of
\* closeNavMobile, the 200 ms timers and the animation frames of openSideNav.
NoNav ==
  [active |-> FALSE, overflow |-> "", transform |-> "", display |-> "", opacity |-> "0",
   icon |-> "open", listening |-> FALSE,
   restoreTimers |-> 0, backgroundTimers |-> 0, frames |-> 0]

closeNavMobile(nav) ==
  [nav EXCEPT !.transform = "translateX(100%)",
              !.opacity = "0",
              !.active = FALSE,
              !.icon = "open",
              !.restoreTimers = @ + 1]

initMobileState(nav) ==
  [nav EXCEPT !.transform = "translateX(100%)", !.opacity = "0", !.icon = "open"]

openSideNav(nav) ==
  [nav EXCEPT !.overflow = "hidden",
              !.active = TRUE,
              !.icon = "close",
              !.backgroundTimers = @ + 1,
              !.frames = @ + 1]

resetOnDesktop(nav) ==
  [nav EXCEPT !.transform = "", !.active = FALSE, !.overflow = "", !.opacity = "0",
              !.icon = "open"]

handleButtonClick(nav) ==
  IF nav.active THEN closeNavMobile(nav) ELSE openSideNav(nav)

\* navMobile(): the state is set for the width of the screen; the click
\* listener is added on mobile only
navMobile(nav, mobile) ==
  IF mobile
    THEN [initMobileState(nav) EXCEPT !.listening = TRUE]
    ELSE resetOnDesktop(nav)

\* the listener of the media query
mediaChange(nav, matches) ==
  IF matches
    THEN [initMobileState(nav) EXCEPT !.listening = TRUE]
    ELSE resetOnDesktop([nav EXCEPT !.listening = FALSE])

\* the state of the components of the page next to the auth card
\* submitDisabled is the disabled attribute of the login form's submit control
NoPage ==
  [slide |-> NoSlide, driven |-> "none", popup |-> FALSE, submitDisabled |-> FALSE,
   reports |-> NoReports, nav |-> NoNav]

OtherCard(c) == IF c = "reset" THEN "login" ELSE "reset"

\* animateSlide that starts whatever is running
animateSlide_noGuard(st, to) ==
  LET from == OtherCard(to)
      cd == killTweensOf(killTweensOf(st.cd, from), to)
  IN [st EXCEPT !.cd = [cd EXCEPT !.display[to] = FALSE,
                                  !.display[from] = TRUE,
                                  !.visibility[from] = TRUE],
                !.pg.slide = [@ EXCEPT !.isAnimating = TRUE, !.to = to, !.phase = "exit"]]

\* animateSlide(to) up to its return: the guard, the running tweens of the
\* two cards killed, the incoming card hidden, the outgoing card shown, the
\* timeline started
animateSlide(st, to) ==
  IF st.pg.slide.isAnimating \/ st.pg.slide.currentCard = to
    THEN st
    ELSE LET from == OtherCard(to)
             cd == killTweensOf(killTweensOf(st.cd, from), to)
         IN [st EXCEPT !.cd = [cd EXCEPT !.display[to] = FALSE,
                                         !.display[from] = TRUE,
                                         !.visibility[from] = TRUE],
                       !.pg.slide = [@ EXCEPT !.isAnimating = TRUE, !.to = to,
                                              !.phase = "exit"]]

\* the exit tween of the slide completes: the outgoing card is hidden, then
\* the incoming card is displayed at its entry offset
slideExitComplete(st) ==
  [st EXCEPT !.cd.display[OtherCard(st.pg.slide.to)] = FALSE,
             !.cd.display[st.pg.slide.to] = TRUE,
             !.cd.visibility[st.pg.slide.to] = TRUE,
             !.pg.slide.phase = "enter"]

\* the timeline of the slide completes
slideComplete(st) ==
  [st EXCEPT !.pg.slide = [currentCard |-> @.to, isAnimating |-> FALSE, to |-> @.to,
                           phase |-> "none"]]

\* initSlideLoginReset: the login card displayed, the reset card not
initSlideLoginReset(st) ==
  [st EXCEPT !.cd.display["login"] = TRUE, !.cd.display["reset"] = FALSE]

\* ------------------------------------------------------------ auth events
AuthEventType ==
  {"auth:logged-in", "auth:logged-out", "auth:tokens-updated", "auth:user-updated",
   "auth:error"}

\* the listeners the auth form registers, in this order
setupAuthListeners ==
  << [id |-> 1, type |-> "auth:logged-in",    callback |-> "updateUIBasedOnAuthState"],
     [id |-> 2, type |-> "auth:logged-out",   callback |-> "updateUIBasedOnAuthState"],
     [id |-> 3, type |-> "auth:user-updated", callback |-> "updateUserInfo"] >>

\* one listener called with the event: the form's callbacks redraw the card
\* (updateUserInfo only writes texts); any other callback is recorded with
\* the storage it finds
handler(st, l, type, detail) ==
  CASE l.callback = "updateUIBasedOnAuthState" -> updateUIBasedOnAuthState(st)
    [] l.callback = "updateUserInfo" -> st
    [] OTHER -> [st EXCEPT !.win.calls =
                   Append(@, [id |-> l.id, type |-> type, detail |-> detail, ls |-> st.ls])]

\* window.dispatchEvent: the listeners of the type registered when the
\* dispatch starts are called one after the other, in registration order
RECURSIVE dispatchEvent(_, _, _, _)
\* dispatchEvent that calls the listeners last registered first
dispatchEvent_reversed(st, listeners, type, detail) ==
  IF listeners = <<>>
    THEN st
    ELSE LET st1 == dispatchEvent(st, Tail(listeners), type, detail)
         IN IF Head(listeners).type = type
              THEN handler(st1, Head(listeners), type, detail)
              ELSE st1

dispatchEvent(st, listeners, type, detail) ==
  IF listeners = <<>>
    THEN st
    ELSE dispatchEvent(IF Head(listeners).type = type
                         THEN handler(st, Head(listeners), type, detail)
                         ELSE st,
                       Tail(listeners), type, detail)

\* ----------------------------------------------- Session Manager: writes
\* A write runs inside a step of one client operation: st is the record
\* [ls |-> storage, pr |-> that operation's frame, win |-> the window's
\* listeners and their calls, cd |-> the auth card]; the events dispatched
\* (synchronously) by the step are appended to the frame's emitted list and
\* delivered to the listeners.
dispatchAuthEvent(st, type, detail) ==
  dispatchEvent([st EXCEPT !.pr.emitted = Append(@, [type |-> type, detail |-> detail])],
                st.win.listeners, type, detail)

\* setTokens that keeps a stored pair
setTokens_keepsStored(st, tokens) ==
  dispatchAuthEvent(
    IF getTokens(st.ls) # null
      THEN st
      ELSE [st EXCEPT !.ls = setItem(setItem(@, STORAGE_KEYS.ACCESS_TOKEN, tokens.access_token),
                                     STORAGE_KEYS.REFRESH_TOKEN, tokens.refresh_token)],
    "auth:tokens-updated", null)

setTokens(st, tokens) ==
  dispatchAuthEvent(
    [st EXCEPT !.ls = setItem(setItem(@, STORAGE_KEYS.ACCESS_TOKEN, tokens.access_token),
                              STORAGE_KEYS.REFRESH_TOKEN, tokens.refresh_token)],
    "auth:tokens-updated", null)

\* clearTokens that removes the two tokens and leaves the cached profile
clearTokens_keepsUser(st) ==
  dispatchAuthEvent(
    [st EXCEPT !.ls = removeItem(removeItem(@, STORAGE_KEYS.ACCESS_TOKEN),
                                 STORAGE_KEYS.REFRESH_TOKEN)],
    "auth:logged-out", null)

\* clearTokens that announces the logout before the profile is removed
clearTokens_earlyDispatch(st) ==
  [dispatchAuthEvent(
     [st EXCEPT !.ls = removeItem(removeItem(@, STORAGE_KEYS.ACCESS_TOKEN),
                                  STORAGE_KEYS.REFRESH_TOKEN)],
     "auth:logged-out", null)
   EXCEPT !.ls = removeItem(@, STORAGE_KEYS.USER)]

clearTokens(st) ==
  dispatchAuthEvent(
    [st EXCEPT !.ls = removeItem(removeItem(removeItem(@, STORAGE_KEYS.ACCESS_TOKEN),
                                            STORAGE_KEYS.REFRESH_TOKEN),
                                 STORAGE_KEYS.USER)],
    "auth:logged-out", null)

setStoredUser(st, user) ==
  dispatchAuthEvent(
    [st EXCEPT !.ls = setItem(@, STORAGE_KEYS.USER, JSONstringify(user))],
    "auth:user-updated", null)

\* ------------------------------------------------------------ endpoints
API_BASE_URL == "https://91.121.59.49:10001"

AUTH_ENDPOINTS ==
  [LOGIN |-> "/login", LOGOUT |-> "/logout", REFRESH |-> "/refresh",
   FORGOT_PASSWORD |-> "/forgot-password", RESET_PASSWORD |-> "/reset-password"]

USER_ENDPOINTS == [ME |-> "/users/me"]

REPORT_ENDPOINTS == [LIST |-> "/reports"]

buildUrl(endpoint) == API_BASE_URL \o endpoint

\* ------------------------------------------------- the server (external)
\* a response as the client sees it: fetch rejected (throws), or a status
\* with a body; json = thrown stands for a body response.json() rejects
Response(status, json) == [throws |-> FALSE, status |-> status, json |-> json]

NetworkFailure == [throws |-> TRUE, status |-> 0, json |-> [message |-> "Failed to fetch"]]

\* response.ok
ok(resp) == resp.status >= 200 /\ resp.status <= 299

\* error answers: a 401 that carries a server message (detail), and a 500
\* whose body has none
ErrorResponses ==
  { Response(401, [detail |-> "denied"]), Response(500, [empty |-> TRUE]) }

SuccessBodies(endpoint) ==
  IF endpoint = AUTH_ENDPOINTS.LOGIN THEN TokenPairs
  ELSE IF endpoint = AUTH_ENDPOINTS.REFRESH THEN TokenPairs
  ELSE IF endpoint = USER_ENDPOINTS.ME THEN Users
  ELSE { [payload |-> "ok"] }

\* every answer the server (or the network) can give to a request; the
\* bearer-authenticated endpoint GET /users/me hands out a profile only to a
\* request that carries a bearer token
Answers(request) ==
  LET endpoint == CHOOSE e \in {AUTH_ENDPOINTS.LOGIN, AUTH_ENDPOINTS.LOGOUT,
                                AUTH_ENDPOINTS.REFRESH, AUTH_ENDPOINTS.FORGOT_PASSWORD,
                                USER_ENDPOINTS.ME, REPORT_ENDPOINTS.LIST} :
                        request.url = buildUrl(e)
      bodies == IF endpoint = USER_ENDPOINTS.ME /\ "Authorization" \notin DOMAIN request.headers
                  THEN {}
                  ELSE SuccessBodies(endpoint)
  IN {NetworkFailure}
       \cup { Response(200, b) : b \in bodies \cup {thrown} }
       \cup ErrorResponses

\* -------------------------------------------------------- the API client
\* frame of a client operation that is not running
IdleProc ==
  [pc |-> "idle", opName |-> "none", stage |-> "none", call |-> null,
   inflight |-> null, answer |-> null, ret |-> null,
   nRequests |-> 0, nRefresh |-> 0, nAnswered |-> 0,
   emitted |-> <<>>, lastRefresh |-> "none", cachedUser |-> null]

\* apiRequest, lines 31-55: the request built from the options and the
\* tokens stored at this moment
BuildRequest(ls, c) ==
  LET tokens == getTokens(ls)
      base == ("Content-Type" :> "application/json")
      requestHeaders ==
        IF c.requiresAuth /\ tokens # null
          THEN IF ~Falsy(tokens.access_token)
                 THEN base @@ ("Authorization" :> ("Bearer " \o tokens.access_token))
                 ELSE base
          ELSE base
  IN [url |-> buildUrl(c.endpoint), method |-> c.method,
      headers |-> requestHeaders, body |-> c.body]

\* apiRequest up to `await fetch(...)`: the request goes on the wire
apiRequest(st, c) ==
  [st EXCEPT !.pr.pc = "awaitFetch",
             !.pr.call = c,
             !.pr.inflight = BuildRequest(st.ls, c),
             !.pr.nRequests = @ + 1]

\* a fresh call of apiRequest by an operation: the per-call counters restart
ApiCall(st, c) ==
  apiRequest([st EXCEPT !.pr.nRequests = 0, !.pr.nRefresh = 0, !.pr.nAnswered = 0], c)

get(st, endpoint, requiresAuth) ==
  ApiCall(st, [endpoint |-> endpoint, method |-> "GET", body |-> null,
               requiresAuth |-> requiresAuth])

post(st, endpoint, body, requiresAuth) ==
  ApiCall(st, [endpoint |-> endpoint, method |-> "POST", body |-> body,
               requiresAuth |-> requiresAuth])

\* the operation returns value to its caller
Done(st, value) ==
  [st EXCEPT !.pr.pc = "done", !.pr.ret = value, !.pr.inflight = null]

\* ------------------------------------------------------- the auth service
\* getCurrentUser after `await get(ME)`: the profile is cached on success
getCurrentUser(st, response) ==
  IF response.success THEN setStoredUser(st, response.data) ELSE st

\* checkSession after `await getCurrentUser()`
checkSession(st, response) ==
  Done(getCurrentUser(st, response),
       IF response.success THEN response.data ELSE st.pr.cachedUser)

\* login that announces the connection without the profile
login_noPayload(st, response) ==
  IF st.pr.stage = "token"
    THEN IF ~response.success
           THEN Done(st, response)
           ELSE get([setTokens(st, response.data) EXCEPT !.pr.stage = "user"],
                    USER_ENDPOINTS.ME, TRUE)
    ELSE LET st1 == getCurrentUser(st, response)
         IN IF ~response.success
              THEN Done(clearTokens(st1), response)
              ELSE Done(dispatchAuthEvent(st1, "auth:logged-in", null), response)

\* login that cleans the session when POST /login is refused
login_clearsOnRefusal(st, response) ==
  IF st.pr.stage = "token"
    THEN IF ~response.success
           THEN Done(clearTokens(st), response)
           ELSE get([setTokens(st, response.data) EXCEPT !.pr.stage = "user"],
                    USER_ENDPOINTS.ME, TRUE)
    ELSE LET st1 == getCurrentUser(st, response)
         IN IF ~response.success
              THEN Done(clearTokens(st1), response)
              ELSE Done(dispatchAuthEvent(st1, "auth:logged-in", response.data), response)

\* login that keeps the tokens when the profile cannot be fetched
login_keepsTokens(st, response) ==
  IF st.pr.stage = "token"
    THEN IF ~response.success
           THEN Done(st, response)
           ELSE get([setTokens(st, response.data) EXCEPT !.pr.stage = "user"],
                    USER_ENDPOINTS.ME, TRUE)
    ELSE LET st1 == getCurrentUser(st, response)
         IN IF ~response.success
              THEN Done(st1, response)
              ELSE Done(dispatchAuthEvent(st1, "auth:logged-in", response.data), response)

\* login after `await post(LOGIN)` (stage "token") and after
\* `await getCurrentUser()` (stage "user")
login(st, response) ==
  IF st.pr.stage = "token"
    THEN IF ~response.success
           THEN Done(st, response)
           ELSE get([setTokens(st, response.data) EXCEPT !.pr.stage = "user"],
                    USER_ENDPOINTS.ME, TRUE)
    ELSE LET st1 == getCurrentUser(st, response)
         IN IF ~response.success
              THEN Done(clearTokens(st1), response)
              ELSE Done(dispatchAuthEvent(st1, "auth:logged-in", response.data), response)

\* logout that cleans the storage without telling anyone
logout_silent(st) ==
  Done([st EXCEPT !.ls = removeItem(removeItem(removeItem(@, STORAGE_KEYS.ACCESS_TOKEN),
                                               STORAGE_KEYS.REFRESH_TOKEN),
                                    STORAGE_KEYS.USER)],
       null)

\* logout after `await post(LOGOUT)`: the storage is cleaned in every case
logout(st) == Done(clearTokens(st), null)

\* promptLogin: the auth popup is opened
promptLogin(st) == [st EXCEPT !.pg.popup = TRUE]

\* authGuard after `await checkSession()`, whose result is in ret
authGuard(st) ==
  IF st.pr.ret = null
    THEN Done(promptLogin(st), [granted |-> FALSE])
    ELSE Done(st, [granted |-> TRUE])

\* apiRequest returns response to the operation that awaits it
Return(st, response) ==
  CASE st.pr.opName = "apiRequest" -> Done(st, response)
    [] st.pr.opName = "getCurrentUser" -> Done(getCurrentUser(st, response), response)
    [] st.pr.opName = "checkSession" -> checkSession(st, response)
    [] st.pr.opName = "login" -> login(st, response)
    [] st.pr.opName = "logout" -> logout(st)
    [] st.pr.opName = "authGuard" -> authGuard(checkSession(st, response))

\* ------------------------------------- the API client: after the response
SessionExpired ==
  [success |-> FALSE, error |-> "Session expiree. Veuillez vous reconnecter.",
   status |-> 401]

\* errorData.detail || `Erreur ${response.status}`
errorMessage(resp) ==
  IF "detail" \in DOMAIN resp.json
    THEN resp.json.detail
    ELSE "Erreur " \o ToString(resp.status)

\* attemptTokenRefresh returned false: the user is disconnected
RefreshFailed(st, how) ==
  Return(clearTokens([st EXCEPT !.pr.lastRefresh = how]), SessionExpired)

\* attemptTokenRefresh up to `await fetch(REFRESH)`
attemptTokenRefresh(st) ==
  LET tokens == getTokens(st.ls)
  IN IF tokens = null
       THEN RefreshFailed(st, "noToken")
       ELSE [st EXCEPT !.pr.pc = "awaitRefresh",
                       !.pr.nRefresh = @ + 1,
                       !.pr.inflight =
                          [url |-> buildUrl(AUTH_ENDPOINTS.REFRESH), method |-> "POST",
                           headers |-> ("Content-Type" :> "application/json"),
                           body |-> [refresh_token |-> tokens.refresh_token]]]

\* apiRequest that refreshes on every 401, whatever requiresAuth says
OnFetchResponse_ignoresRequiresAuth(st, resp) ==
  IF resp.throws
       THEN Return(st, [success |-> FALSE, error |-> resp.json.message])
     ELSE IF resp.status = 401
       THEN attemptTokenRefresh(st)
     ELSE IF ~ok(resp)
       THEN Return(st, [success |-> FALSE, error |-> errorMessage(resp),
                        status |-> resp.status])
     ELSE IF resp.json = thrown
       THEN Return(st, [success |-> FALSE, error |-> "Unexpected end of JSON input"])
     ELSE Return(st, [success |-> TRUE, data |-> resp.json])

\* apiRequest whose catch block disconnects the user
OnFetchResponse_catchClears(st, resp) ==
  LET c == st.pr.call
  IN IF resp.throws
       THEN Return(clearTokens(st), [success |-> FALSE, error |-> resp.json.message])
     ELSE IF resp.status = 401 /\ c.requiresAuth
       THEN attemptTokenRefresh(st)
     ELSE IF ~ok(resp)
       THEN Return(st, [success |-> FALSE, error |-> errorMessage(resp),
                        status |-> resp.status])
     ELSE IF resp.json = thrown
       THEN Return(st, [success |-> FALSE, error |-> "Unexpected end of JSON input"])
     ELSE Return(st, [success |-> TRUE, data |-> resp.json])

\* apiRequest, lines 58-88: what the call does with the answer to its request
OnFetchResponse(st, resp) ==
  LET c == st.pr.call
  IN IF resp.throws
       THEN Return(st, [success |-> FALSE, error |-> resp.json.message])
     ELSE IF resp.status = 401 /\ c.requiresAuth
       THEN attemptTokenRefresh(st)
     ELSE IF ~ok(resp)
       THEN Return(st, [success |-> FALSE, error |-> errorMessage(resp),
                        status |-> resp.status])
     ELSE IF resp.json = thrown
       THEN Return(st, [success |-> FALSE, error |-> "Unexpected end of JSON input"])
     ELSE Return(st, [success |-> TRUE, data |-> resp.json])

\* a retry that re-sends the request built before the refresh: the new
\* tokens are stored, the header still carries the old one
OnRefreshResponse_staleHeader(st, resp) ==
  IF resp.throws THEN RefreshFailed(st, "throws")
  ELSE IF ~ok(resp) THEN RefreshFailed(st, "non2xx")
  ELSE IF resp.json = thrown THEN RefreshFailed(st, "badJson")
  ELSE setTokens(apiRequest([st EXCEPT !.pr.lastRefresh = "ok"], st.pr.call), resp.json)

\* attemptTokenRefresh, lines 100-116, then apiRequest lines 63-69
OnRefreshResponse(st, resp) ==
  IF resp.throws THEN RefreshFailed(st, "throws")
  ELSE IF ~ok(resp) THEN RefreshFailed(st, "non2xx")
  ELSE IF resp.json = thrown THEN RefreshFailed(st, "badJson")
  ELSE apiRequest(setTokens([st EXCEPT !.pr.lastRefresh = "ok"], resp.json), st.pr.call)

\* ----------------------------------------------------------------- state
VARIABLES
  localStorage,   \* the browser's key-value store
  proc,           \* frame of each client operation
  sm,             \* last direct call of a Session Manager operation
  window,         \* listeners of the auth events, and the calls they received
  card,           \* the auth card component
  page            \* the other components of the page

vars == <<localStorage, proc, sm, window, card, page>>

NoListeners == [listeners |-> <<>>, calls |-> <<>>]

State(p) ==
  [ls |-> localStorage, pr |-> proc[p], win |-> window, cd |-> card, pg |-> page]

\* the step of p leaves the system in st
Becomes(p, st) ==
  /\ localStorage' = st.ls
  /\ proc' = [proc EXCEPT ![p] = st.pr]
  /\ window' = st.win
  /\ card' = st.cd
  /\ page' = st.pg
  /\ UNCHANGED sm

\* a page load finds the storage as an earlier page left it: anonymous, or
\* logged in with or without the profile cached
InitialStorages ==
  {EmptyStorage}
    \cup { [EmptyStorage EXCEPT ![STORAGE_KEYS.ACCESS_TOKEN] = t.access_token,
                                ![STORAGE_KEYS.REFRESH_TOKEN] = t.refresh_token,
                                ![STORAGE_KEYS.USER] = u] :
           t \in TokenPairs, u \in {noItem} \cup { JSONstringify(x) : x \in Users } }

Init ==
  /\ localStorage \in InitialStorages
  /\ proc = [p \in Procs |-> IdleProc]
  /\ sm = [op |-> "none"]
  /\ window = NoListeners
  /\ card = NoCard
  /\ page = NoPage

\* ------------------------------------------------------------ operations
Begin(p, name, stage) ==
  [State(p) EXCEPT !.pr.opName = name, !.pr.stage = stage]

\* a direct call of the client: an authenticated read (reports), or an
\* unauthenticated post (forgotPassword / resetPassword)
StartApiRequest(p, requiresAuth) ==
  /\ proc[p].pc = "idle"
  /\ Becomes(p, IF requiresAuth
                  THEN get(Begin(p, "apiRequest", "none"), REPORT_ENDPOINTS.LIST, TRUE)
                  ELSE post(Begin(p, "apiRequest", "none"), AUTH_ENDPOINTS.FORGOT_PASSWORD,
                            [email |-> "a@b.com"], FALSE))

StartGetCurrentUser(p) ==
  /\ proc[p].pc = "idle"
  /\ Becomes(p, get(Begin(p, "getCurrentUser", "none"), USER_ENDPOINTS.ME, TRUE))

StartCheckSession(p) ==
  /\ proc[p].pc = "idle"
  /\ Becomes(p, IF ~isAuthenticated(localStorage)
                  THEN Done(Begin(p, "checkSession", "none"), null)
                  ELSE get([Begin(p, "checkSession", "none") EXCEPT
                              !.pr.cachedUser = getStoredUser(localStorage)],
                           USER_ENDPOINTS.ME, TRUE))

StartLogin(p) ==
  /\ proc[p].pc = "idle"
  /\ Becomes(p, post(Begin(p, "login", "token"), AUTH_ENDPOINTS.LOGIN,
                     [email |-> "a@b.com", password |-> "x"], FALSE))

StartLogout(p) ==
  /\ proc[p].pc = "idle"
  /\ LET tokens == getTokens(localStorage)
     IN Becomes(p, IF tokens # null
                     THEN post(Begin(p, "logout", "none"), AUTH_ENDPOINTS.LOGOUT,
                               [refresh_token |-> tokens.refresh_token], FALSE)
                     ELSE logout(Begin(p, "logout", "none")))

\* the answer to the request of p arrives
FetchResponse(p) ==
  /\ proc[p].pc = "awaitFetch"
  /\ \E resp \in Answers(proc[p].inflight) :
       /\ (resp.status = 401 /\ proc[p].call.requiresAuth) => proc[p].nRefresh < MaxRefresh
       /\ Becomes(p, OnFetchResponse([State(p) EXCEPT !.pr.answer = resp,
                                                      !.pr.nAnswered = @ + 1], resp))

\* the answer to the refresh exchange of p arrives
RefreshResponse(p) ==
  /\ proc[p].pc = "awaitRefresh"
  /\ \E resp \in Answers(proc[p].inflight) :
       Becomes(p, OnRefreshResponse([State(p) EXCEPT !.pr.answer = resp], resp))

\* the caller has taken the result; the slot is free for another operation
Finish(p) ==
  /\ proc[p].pc = "done"
  /\ proc' = [proc EXCEPT ![p] = IdleProc]
  /\ UNCHANGED <<localStorage, sm, window, card, page>>

Next ==
  \/ \E p \in Procs, requiresAuth \in BOOLEAN : StartApiRequest(p, requiresAuth)
  \/ \E p \in Procs : StartGetCurrentUser(p)
  \/ \E p \in Procs : StartCheckSession(p)
  \/ \E p \in Procs : StartLogin(p)
  \/ \E p \in Procs : StartLogout(p)
  \/ \E p \in Procs : FetchResponse(p)
  \/ \E p \in Procs : RefreshResponse(p)
  \/ \E p \in Procs : Finish(p)

Spec == Init /\ [][Next]_vars

\* ------------------------------------------- one operation at a time
\* The page runs its operations one after the other: a single frame, the
\* session anonymous at page load.
InitSolo ==
  /\ localStorage = EmptyStorage
  /\ proc = [p \in Procs |-> IdleProc]
  /\ sm = [op |-> "none"]
  /\ window = NoListeners
  /\ card = NoCard
  /\ page = NoPage

NextSolo ==
  \/ \E requiresAuth \in BOOLEAN : StartApiRequest("p1", requiresAuth)
  \/ StartGetCurrentUser("p1")
  \/ StartCheckSession("p1")
  \/ StartLogin("p1")
  \/ StartLogout("p1")
  \/ FetchResponse("p1")
  \/ RefreshResponse("p1")
  \/ Finish("p1")

SpecSolo == InitSolo /\ [][NextSolo]_vars

\* ------------------------------------------- subscribers of the events
\* Code of the page subscribes to and unsubscribes from the auth events and
\* calls the writes of the Session Manager; each call runs to its return,
\* the calls of the listeners included, before anything else on the page.
\* a call made by page code, outside any client operation
Direct == [ls |-> localStorage, pr |-> IdleProc,
           win |-> [window EXCEPT !.calls = <<>>], cd |-> card, pg |-> page]

\* the record of a direct call that returned, with the storage it found
DirectCalled(op, args, st) ==
  [op |-> op, args |-> args, outcome |-> "returned", value |-> [v |-> null],
   events |-> st.pr.emitted, before |-> localStorage]

\* onAuthEvent(type, callback): addEventListener appends to the list
onAuthEvent(type) ==
  /\ Len(window.listeners) < MaxListeners
  /\ \E id \in 1..MaxListeners :
       /\ \A i \in 1..Len(window.listeners) : window.listeners[i].id # id
       /\ window' = [listeners |-> Append(window.listeners,
                                          [id |-> id, type |-> type, callback |-> "callback"]),
                     calls |-> <<>>]
  /\ sm' = [op |-> "onAuthEvent"]
  /\ UNCHANGED <<localStorage, proc, card, page>>

\* the function onAuthEvent returned is called: removeEventListener
unsubscribe(id) ==
  /\ \E i \in 1..Len(window.listeners) : window.listeners[i].id = id
  /\ window' = [listeners |-> SelectSeq(window.listeners, LAMBDA l : l.id # id),
                calls |-> <<>>]
  /\ sm' = [op |-> "unsubscribe"]
  /\ UNCHANGED <<localStorage, proc, card, page>>

DirectSetTokens ==
  \E tokens \in TokenPairs :
    LET st == setTokens(Direct, tokens)
    IN /\ sm' = DirectCalled("setTokens", tokens, st)
       /\ localStorage' = st.ls
       /\ window' = st.win
       /\ UNCHANGED <<proc, card, page>>

DirectClearTokens ==
  LET st == clearTokens(Direct)
  IN /\ sm' = DirectCalled("clearTokens", null, st)
     /\ localStorage' = st.ls
     /\ window' = st.win
     /\ UNCHANGED <<proc, card, page>>

DirectSetStoredUser ==
  \E user \in Users :
    LET st == setStoredUser(Direct, user)
    IN /\ sm' = DirectCalled("setStoredUser", user, st)
       /\ localStorage' = st.ls
       /\ window' = st.win
       /\ UNCHANGED <<proc, card, page>>

\* page code reads the session between two calls
DirectRead ==
  /\ sm.op \in {"setTokens", "clearTokens", "setStoredUser"}
  /\ sm' = [op |-> "read", after |-> sm.op,
            tokens |-> getTokens(localStorage), user |-> getStoredUser(localStorage)]
  /\ UNCHANGED <<localStorage, proc, window, card, page>>

\* the events the three writes emit
WriteEvents == {"auth:tokens-updated", "auth:logged-out", "auth:user-updated"}

NextNotify ==
  \/ \E type \in WriteEvents : onAuthEvent(type)
  \/ \E id \in 1..MaxListeners : unsubscribe(id)
  \/ DirectSetTokens
  \/ DirectClearTokens
  \/ DirectSetStoredUser
  \/ DirectRead

SpecNotify == Init /\ [][NextNotify]_vars

\* ------------------------------------------------------- the auth form
\* The page with the auth form, its session check settled: frame "p1" is
\* the operation started by the form (login or logout). A step runs up to
\* the next await, the continuation of the form's handler included.
Shown(cd) == { c \in Cards : cd.display[c] /\ cd.visibility[c] }

\* initAuthForm up to its return: the listeners are registered and the card
\* of the stored session is shown
initAuthForm(ls) ==
  updateUIBasedOnAuthState([ls |-> ls, pr |-> IdleProc,
                            win |-> [listeners |-> setupAuthListeners, calls |-> <<>>],
                            cd |-> NoCard, pg |-> NoPage])

InitCards ==
  /\ localStorage \in InitialStorages
  /\ proc = [p \in Procs |-> IdleProc]
  /\ sm = [op |-> "none"]
  /\ window = initAuthForm(localStorage).win
  /\ card = initAuthForm(localStorage).cd
  /\ page = NoPage

\* what follows `await login(...)` and `await logout()` once the operation
\* has returned
\* (the login handler's `finally` follows at once unless the handler awaits
\* the transition to the logged card)
afterAwait(st) ==
  IF st.pr.pc # "done"
    THEN st
    ELSE CASE st.pr.opName = "login" ->
                IF st.pr.ret.success /\ st.pr.ret.data # null
                  THEN [st EXCEPT !.cd = animateCardTransition(@, "login", "logged")]
                  ELSE [st EXCEPT !.pg.submitDisabled = FALSE]
           [] st.pr.opName = "logout" ->
                [st EXCEPT !.cd = animateCardTransition(@, "logged", "login")]
           [] OTHER -> st

\* the step of p leaves the page in st, within the animations the model keeps
Settles(p, st) ==
  /\ Len(st.cd.timelines) <= MaxTimelines
  /\ Becomes(p, st)

\* the submit handler of the login form that leaves its control enabled
onLoginSubmit_staysEnabled(st) ==
  post(st, AUTH_ENDPOINTS.LOGIN, [email |-> "a@b.com", password |-> "x"], FALSE)

\* the submit handler of the login form up to `await login(...)`: the
\* control is disabled, then the login call starts
onLoginSubmit(st) ==
  post([st EXCEPT !.pg.submitDisabled = TRUE], AUTH_ENDPOINTS.LOGIN,
       [email |-> "a@b.com", password |-> "x"], FALSE)

\* the promise of a finished transition resolves: the login handler, which
\* alone awaits a transition from the login to the logged card, runs its
\* `finally`
transitionResolved(pg, tl) ==
  IF tl.from = "login" /\ tl.to = "logged"
    THEN [pg EXCEPT !.submitDisabled = FALSE]
    ELSE pg

\* the frame a handler of the page runs its call in
FormFrame == IF proc["p1"].pc = "idle" THEN "p1" ELSE "p2"

\* the login form is submitted, through its submit control: a disabled
\* control submits nothing
SubmitLogin ==
  /\ "login" \in Shown(card)
  /\ ~page.submitDisabled
  /\ proc[FormFrame].pc = "idle"
  /\ Settles(FormFrame, onLoginSubmit(Begin(FormFrame, "login", "token")))

\* the logout button of the logged card is clicked
ClickLogout ==
  /\ "logged" \in Shown(card)
  /\ proc["p1"].pc = "idle"
  /\ LET tokens == getTokens(localStorage)
     IN Settles("p1", afterAwait(
          IF tokens # null
            THEN post(Begin("p1", "logout", "none"), AUTH_ENDPOINTS.LOGOUT,
                      [refresh_token |-> tokens.refresh_token], FALSE)
            ELSE logout(Begin("p1", "logout", "none"))))

\* the forgotten-password link of the login card is clicked
ClickForgot ==
  /\ "login" \in Shown(card)
  /\ Len(card.timelines) < MaxTimelines
  /\ card' = animateCardTransition(card, "login", "forgot")
  /\ page' = [page EXCEPT !.driven = "none"]
  /\ UNCHANGED <<localStorage, proc, sm, window>>

\* the back button of the forgotten-password card is clicked
ClickBack ==
  /\ "forgot" \in Shown(card)
  /\ Len(card.timelines) < MaxTimelines
  /\ card' = animateCardTransition(card, "forgot", "login")
  /\ page' = [page EXCEPT !.driven = "none"]
  /\ UNCHANGED <<localStorage, proc, sm, window>>

CardFetchResponse(p) ==
  /\ proc[p].pc = "awaitFetch"
  /\ \E resp \in Answers(proc[p].inflight) :
       /\ (resp.status = 401 /\ proc[p].call.requiresAuth) => proc[p].nRefresh < MaxRefresh
       /\ Settles(p, afterAwait(OnFetchResponse([State(p) EXCEPT !.pr.answer = resp,
                                                                 !.pr.nAnswered = @ + 1],
                                                resp)))

CardRefreshResponse(p) ==
  /\ proc[p].pc = "awaitRefresh"
  /\ \E resp \in Answers(proc[p].inflight) :
       Settles(p, afterAwait(OnRefreshResponse([State(p) EXCEPT !.pr.answer = resp], resp)))

\* the exit tween of a timeline completes; timelines have the same
\* durations, so one started earlier is never behind
ExitComplete(i) ==
  /\ i \in 1..Len(card.timelines)
  /\ card.timelines[i].phase = 0
  /\ \A j \in 1..(i - 1) : card.timelines[j].phase = 1
  /\ card' = exitComplete(card, i)
  /\ UNCHANGED <<localStorage, proc, sm, window, page>>

TimelineComplete ==
  /\ card.timelines # <<>>
  /\ Head(card.timelines).phase = 1
  /\ card' = timelineComplete(card)
  /\ page' = transitionResolved(page, Head(card.timelines))
  /\ UNCHANGED <<localStorage, proc, sm, window>>

NextCards ==
  \/ SubmitLogin
  \/ ClickLogout
  \/ ClickForgot
  \/ ClickBack
  \/ \E p \in Procs : CardFetchResponse(p)
  \/ \E p \in Procs : CardRefreshResponse(p)
  \/ \E p \in Procs : Finish(p)
  \/ \E i \in 1..MaxTimelines : ExitComplete(i)
  \/ TimelineComplete

SpecCards == InitCards /\ [][NextCards]_vars

\* -------------------------------------------- the page with both sliders
\* The auth form and the login / reset slide on the same cards; the user
\* clicks the links of the cards and the animations run.
InitSlide ==
  /\ localStorage \in InitialStorages
  /\ proc = [p \in Procs |-> IdleProc]
  /\ sm = [op |-> "none"]
  /\ window = initAuthForm(localStorage).win
  /\ card = initSlideLoginReset(initAuthForm(localStorage)).cd
  /\ page = NoPage

\* the page outside any client operation
Page == [ls |-> localStorage, pr |-> IdleProc, win |-> window, cd |-> card, pg |-> page]

\* a data-animation="reset" / "login" element is clicked
ClickAnimation(to) ==
  /\ card' = animateSlide(Page, to).cd
  /\ page' = animateSlide(Page, to).pg
  /\ UNCHANGED <<localStorage, proc, sm, window>>

SlideExitComplete ==
  /\ page.slide.phase = "exit"
  /\ card' = slideExitComplete(Page).cd
  /\ page' = slideExitComplete(Page).pg
  /\ UNCHANGED <<localStorage, proc, sm, window>>

SlideComplete ==
  /\ page.slide.phase = "enter"
  /\ page' = slideComplete(Page).pg
  /\ UNCHANGED <<localStorage, proc, sm, window, card>>

NextSlide ==
  \/ \E to \in {"login", "reset"} : ClickAnimation(to)
  \/ SlideExitComplete
  \/ SlideComplete
  \/ ClickForgot
  \/ ClickBack
  \/ \E i \in 1..MaxTimelines : ExitComplete(i)
  \/ TimelineComplete

\* a running timeline runs on
SpecSlide ==
  /\ InitSlide
  /\ [][NextSlide]_vars
  /\ WF_vars(SlideExitComplete)
  /\ WF_vars(SlideComplete)

\* ------------------------------------------------------ a protected page
\* The guard of a protected page runs (page load, tab visible again), and
\* the user logs in and out through the popup.
\* authGuard up to its first await; expired is the answer of isTokenExpired
StartAuthGuard(p, expired) ==
  /\ proc[p].pc = "idle"
  /\ LET st == Begin(p, "authGuard", "none")
     IN Becomes(p, IF ~isAuthenticated(localStorage)
                     THEN Done(promptLogin(st), [granted |-> FALSE])
                     ELSE IF expired
                            THEN get([st EXCEPT !.pr.cachedUser = getStoredUser(localStorage)],
                                     USER_ENDPOINTS.ME, TRUE)
                            ELSE Done(st, [granted |-> TRUE]))

\* the user closes the popup
ClosePopup ==
  /\ page.popup
  /\ page' = [page EXCEPT !.popup = FALSE]
  /\ UNCHANGED <<localStorage, proc, sm, window, card>>

NextGuard ==
  \/ \E expired \in BOOLEAN : StartAuthGuard("p1", expired)
  \/ StartLogin("p1")
  \/ StartLogout("p1")
  \/ FetchResponse("p1")
  \/ RefreshResponse("p1")
  \/ Finish("p1")
  \/ ClosePopup

SpecGuard == Init /\ [][NextGuard]_vars

\* ------------------------------------ Session Manager on a failing store
\* The key-value store can fail: an access (getItem, setItem, removeItem)
\* throws.  failAt is the number of the access of the call that throws, 0
\* when none does; the accesses before it have taken effect.  The code
\* wraps no access in try/catch, so the exception leaves the operation.
Raised(ls) == [outcome |-> "raised", value |-> thrown, ls |-> ls, events |-> <<>>]

Returned(value, ls, events) ==
  [outcome |-> "returned", value |-> [v |-> value], ls |-> ls, events |-> events]

getTokensCall(ls, failAt) ==
  IF failAt \in {1, 2} THEN Raised(ls) ELSE Returned(getTokens(ls), ls, <<>>)

\* setTokens that writes both tokens under the access-token key
setTokensCall_sameKey(ls, tokens, failAt) ==
  IF failAt = 1 THEN Raised(ls)
  ELSE IF failAt = 2
    THEN Raised(setItem(ls, STORAGE_KEYS.ACCESS_TOKEN, tokens.access_token))
  ELSE Returned(null,
                setItem(setItem(ls, STORAGE_KEYS.ACCESS_TOKEN, tokens.access_token),
                        STORAGE_KEYS.ACCESS_TOKEN, tokens.refresh_token),
                <<"auth:tokens-updated">>)

setTokensCall(ls, tokens, failAt) ==
  IF failAt = 1 THEN Raised(ls)
  ELSE IF failAt = 2
    THEN Raised(setItem(ls, STORAGE_KEYS.ACCESS_TOKEN, tokens.access_token))
  ELSE Returned(null,
                setItem(setItem(ls, STORAGE_KEYS.ACCESS_TOKEN, tokens.access_token),
                        STORAGE_KEYS.REFRESH_TOKEN, tokens.refresh_token),
                <<"auth:tokens-updated">>)

\* clearTokens that leaves the cached profile in the store
clearTokensCall_keepsUser(ls, failAt) ==
  IF failAt = 1 THEN Raised(ls)
  ELSE IF failAt = 2 THEN Raised(removeItem(ls, STORAGE_KEYS.ACCESS_TOKEN))
  ELSE Returned(null,
                removeItem(removeItem(ls, STORAGE_KEYS.ACCESS_TOKEN),
                           STORAGE_KEYS.REFRESH_TOKEN),
                <<"auth:logged-out">>)

clearTokensCall(ls, failAt) ==
  IF failAt = 1 THEN Raised(ls)
  ELSE IF failAt = 2 THEN Raised(removeItem(ls, STORAGE_KEYS.ACCESS_TOKEN))
  ELSE IF failAt = 3
    THEN Raised(removeItem(removeItem(ls, STORAGE_KEYS.ACCESS_TOKEN),
                           STORAGE_KEYS.REFRESH_TOKEN))
  ELSE Returned(null,
                removeItem(removeItem(removeItem(ls, STORAGE_KEYS.ACCESS_TOKEN),
                                      STORAGE_KEYS.REFRESH_TOKEN),
                           STORAGE_KEYS.USER),
                <<"auth:logged-out">>)

getStoredUserCall(ls, failAt) ==
  IF failAt = 1 THEN Raised(ls) ELSE Returned(getStoredUser(ls), ls, <<>>)

setStoredUserCall(ls, user, failAt) ==
  IF failAt = 1 THEN Raised(ls)
  ELSE Returned(null, setItem(ls, STORAGE_KEYS.USER, JSONstringify(user)),
                <<"auth:user-updated">>)

isAuthenticatedCall(ls, failAt) ==
  IF getTokensCall(ls, failAt).outcome = "raised"
    THEN Raised(ls)
    ELSE Returned(isAuthenticated(ls), ls, <<>>)

hasPermissionCall(ls, permission, failAt) ==
  IF getStoredUserCall(ls, failAt).outcome = "raised"
    THEN Raised(ls)
    ELSE Returned(hasPermission(ls, permission), ls, <<>>)

\* apiRequest, lines 31-55, on the failing store: getTokens is read only
\* when requiresAuth is true
BuildRequestCall(ls, c, failAt) ==
  IF c.requiresAuth /\ getTokensCall(ls, failAt).outcome = "raised"
    THEN Raised(ls)
    ELSE Returned(BuildRequest(ls, c), ls, <<>>)

\* pairs handed to setTokens: the server's, and pairs with an empty field
TokenInputs ==
  TokenPairs \cup
    { [access_token |-> "", refresh_token |-> "r1", token_type |-> "bearer"],
      [access_token |-> "a1", refresh_token |-> "", token_type |-> "bearer"] }

PermissionNames == {"reports.view", "reports.edit", "admin"}

\* the record of a call of operation op of the Session Manager with args
Called(op, args, r) ==
  [op |-> op, args |-> args, outcome |-> r.outcome, value |-> r.value, events |-> r.events]

SMgetTokens ==
  \E failAt \in 0..2 :
    LET r == getTokensCall(localStorage, failAt)
    IN /\ sm' = Called("getTokens", null, r)
       /\ localStorage' = r.ls
       /\ UNCHANGED <<proc, window, card, page>>

SMsetTokens ==
  \E tokens \in TokenInputs, failAt \in 0..2 :
    LET r == setTokensCall(localStorage, tokens, failAt)
    IN /\ sm' = Called("setTokens", tokens, r)
       /\ localStorage' = r.ls
       /\ UNCHANGED <<proc, window, card, page>>

SMclearTokens ==
  \E failAt \in 0..3 :
    LET r == clearTokensCall(localStorage, failAt)
    IN /\ sm' = Called("clearTokens", null, r)
       /\ localStorage' = r.ls
       /\ UNCHANGED <<proc, window, card, page>>

SMgetStoredUser ==
  \E failAt \in 0..1 :
    LET r == getStoredUserCall(localStorage, failAt)
    IN /\ sm' = Called("getStoredUser", null, r)
       /\ localStorage' = r.ls
       /\ UNCHANGED <<proc, window, card, page>>

SMsetStoredUser ==
  \E user \in AllUsers, failAt \in 0..1 :
    LET r == setStoredUserCall(localStorage, user, failAt)
    IN /\ sm' = Called("setStoredUser", user, r)
       /\ localStorage' = r.ls
       /\ UNCHANGED <<proc, window, card, page>>

SMisAuthenticated ==
  \E failAt \in 0..2 :
    LET r == isAuthenticatedCall(localStorage, failAt)
    IN /\ sm' = Called("isAuthenticated", null, r)
       /\ localStorage' = r.ls
       /\ UNCHANGED <<proc, window, card, page>>

SMhasPermission ==
  \E permission \in PermissionNames, failAt \in 0..1 :
    LET r == hasPermissionCall(localStorage, permission, failAt)
    IN /\ sm' = Called("hasPermission", [permission |-> permission], r)
       /\ localStorage' = r.ls
       /\ UNCHANGED <<proc, window, card, page>>

\* apiRequest up to the moment the request is handed to fetch
SMbuildRequest ==
  \E requiresAuth \in BOOLEAN, failAt \in 0..2 :
    LET c == [endpoint |-> REPORT_ENDPOINTS.LIST, method |-> "GET", body |-> null,
              requiresAuth |-> requiresAuth]
        r == BuildRequestCall(localStorage, c, failAt)
    IN /\ sm' = Called("apiRequest", c, r)
       /\ localStorage' = r.ls
       /\ UNCHANGED <<proc, window, card, page>>

NextStore ==
  \/ SMgetTokens
  \/ SMsetTokens
  \/ SMclearTokens
  \/ SMgetStoredUser
  \/ SMsetStoredUser
  \/ SMisAuthenticated
  \/ SMhasPermission
  \/ SMbuildRequest

SpecStore == Init /\ [][NextStore]_vars

\* ------------------------------------------------------ filtering reports
\* the reports the server lists
ReportSet ==
  LET full == { [category_id |-> c, category_name |-> <<"A", "b">>, name |-> n, active |-> a] :
                  c \in {1, 2}, n \in {<<"A">>, <<"b">>}, a \in BOOLEAN }
  IN full \cup { Restrict(r, {"category_id", "name", "active"}) : r \in full }

RECURSIVE ReportLists(_)
ReportLists(n) ==
  IF n = 0
    THEN {<<>>}
    ELSE LET shorter == ReportLists(n - 1)
         IN shorter \cup { Append(l, r) : l \in {x \in shorter : Len(x) = n - 1},
                                           r \in ReportSet }

\* the filters a caller supplies: every subset of the four properties
FilterSet ==
  LET full == [categoryId    : {1},
               categoryNames : { <<>>, << <<"a">> >>, << <<"A">> >>,
                                 << <<"b", "a">>, <<"b">> >> },
               search        : { <<>>, <<"a">>, <<"B">> },
               active        : BOOLEAN]
  IN { Restrict(f, D) : f \in full,
                        D \in SUBSET {"categoryId", "categoryNames", "search", "active"} }

\* the reports are cached; nothing has been asked of them yet
InitFilter ==
  /\ localStorage \in {ls \in InitialStorages : ~isAuthenticated(ls)}
  /\ proc = [p \in Procs |-> IdleProc]
  /\ sm = [op |-> "none"]
  /\ window = NoListeners
  /\ card = NoCard
  /\ \E l \in ReportLists(MaxReports) :
       page = [NoPage EXCEPT !.reports.reportsCache = [array |-> l]]

\* a caller asks for the reports, with filters or without
GetFilteredReports ==
  /\ page.reports.result = null
  /\ \E filters \in FilterSet \cup {null} :
       page' = [page EXCEPT !.reports = getFilteredReports(@, filters)]
  /\ UNCHANGED <<localStorage, proc, sm, window, card>>

NextFilter == GetFilteredReports

SpecFilter == InitFilter /\ [][NextFilter]_vars

\* ------------------------------------------------------ the reports display
\* what the server answers to GET /categories and GET /reports
CategoryAnswers ==
  { [success |-> TRUE, data |-> <<[id |-> 1, name |-> <<"A", "b">>]>>],
    [success |-> FALSE, error |-> "Erreur reseau"] }

ReportAnswers ==
  { [success |-> TRUE, data |-> l] : l \in ReportLists(1) }
    \cup { [success |-> FALSE, error |-> "Erreur reseau"] }

\* initReportsDisplay has run: the listeners are registered and the first
\* loadAllData waits for the categories
InitReports ==
  /\ localStorage \in {ls \in InitialStorages : ~isAuthenticated(ls)}
  /\ proc = [p \in Procs |-> IdleProc]
  /\ sm = [op |-> "none"]
  /\ window = NoListeners
  /\ card = NoCard
  /\ page = [NoPage EXCEPT !.reports = loadAllData(@)]

\* 'auth:tokens-updated' or 'auth:logged-out' reaches the display
AuthChange ==
  /\ page.reports.epoch < MaxAuthChanges
  /\ Len(page.reports.loads) < MaxLoads
  /\ page' = [page EXCEPT !.reports = onAuthChange(@)]
  /\ UNCHANGED <<localStorage, proc, sm, window, card>>

\* the category select changes: the filter is set or dropped, then loadReports
FilterChange ==
  /\ Len(page.reports.loads) < MaxLoads
  /\ \E f \in {[active |-> TRUE], [active |-> TRUE, categoryId |-> 1]} :
       /\ f # page.reports.currentFilters
       /\ page' = [page EXCEPT !.reports = loadReports([@ EXCEPT !.currentFilters = f])]
  /\ UNCHANGED <<localStorage, proc, sm, window, card>>

CategoriesAnswered(i) ==
  /\ i \in 1..Len(page.reports.loads)
  /\ page.reports.loads[i].stage = "categories"
  /\ \E response \in CategoryAnswers :
       page' = [page EXCEPT !.reports = categoriesAnswered(@, i, response)]
  /\ UNCHANGED <<localStorage, proc, sm, window, card>>

ReportsAnswered(i) ==
  /\ i \in 1..Len(page.reports.loads)
  /\ page.reports.loads[i].stage = "reports"
  /\ \E response \in ReportAnswers :
       page' = [page EXCEPT !.reports = reportsAnswered(@, i, response)]
  /\ UNCHANGED <<localStorage, proc, sm, window, card>>

NextReports ==
  \/ AuthChange
  \/ FilterChange
  \/ \E i \in 1..MaxLoads : CategoriesAnswered(i)
  \/ \E i \in 1..MaxLoads : ReportsAnswered(i)

SpecReports == InitReports /\ [][NextReports]_vars

\* ---------------------------------------------- the mobile navigation menu
InitNav ==
  /\ localStorage \in {ls \in InitialStorages : ~isAuthenticated(ls)}
  /\ proc = [p \in Procs |-> IdleProc]
  /\ sm = [op |-> "none"]
  /\ window = NoListeners
  /\ card = NoCard
  /\ \E mobile \in BOOLEAN : page = [NoPage EXCEPT !.nav = navMobile(@, mobile)]

\* the navigation button is clicked
ClickNavButton ==
  /\ page.nav.listening
  /\ page.nav.restoreTimers < MaxPending
  /\ page.nav.backgroundTimers < MaxPending
  /\ page.nav.frames < MaxPending
  /\ page' = [page EXCEPT !.nav = handleButtonClick(@)]
  /\ UNCHANGED <<localStorage, proc, sm, window, card>>

\* a 300 ms timer of closeNavMobile fires
RestoreScroll ==
  /\ page.nav.restoreTimers > 0
  /\ page' = [page EXCEPT !.nav.overflow = "", !.nav.restoreTimers = @ - 1]
  /\ UNCHANGED <<localStorage, proc, sm, window, card>>

\* a 200 ms timer of openSideNav fires
ShowBackground ==
  /\ page.nav.backgroundTimers > 0
  /\ page' = [page EXCEPT !.nav.opacity = "1", !.nav.backgroundTimers = @ - 1]
  /\ UNCHANGED <<localStorage, proc, sm, window, card>>

\* an animation frame requested by openSideNav runs
AnimationFrame ==
  /\ page.nav.frames > 0
  /\ page' = [page EXCEPT !.nav.display = "block",
                           !.nav.transform = "translateX(0%)",
                           !.nav.frames = @ - 1]
  /\ UNCHANGED <<localStorage, proc, sm, window, card>>

\* the screen crosses the 991 px breakpoint
MediaChange ==
  /\ page' = [page EXCEPT !.nav = mediaChange(@, ~page.nav.listening)]
  /\ UNCHANGED <<localStorage, proc, sm, window, card>>

NextNav ==
  \/ ClickNavButton
  \/ RestoreScroll
  \/ ShowBackground
  \/ AnimationFrame
  \/ MediaChange

SpecNav == InitNav /\ [][NextNav]_vars

\* =================================================================== claims
\* number of events of one type dispatched during the operation of p
Count(p, type) ==
  Cardinality({ i \in 1..Len(proc[p].emitted) : proc[p].emitted[i].type = type })

\* an apiRequest call of p is in progress
InApiRequest(p) == proc[p].pc \in {"awaitFetch", "awaitRefresh"}

\* this step delivers an answer to the request (not the refresh) of p
Answered(p) == proc[p].pc = "awaitFetch" /\ proc'[p] # proc[p]

\* this step delivers an answer to the refresh exchange of p
RefreshAnswered(p) == proc[p].pc = "awaitRefresh" /\ proc'[p] # proc[p]

Cleared(ls) == \A k \in StorageKeys : ls[k] = noItem

\* C1: one call of apiRequest with requiresAuth = true starts at most one
\* refresh exchange and sends the original request at most twice, whatever
\* the server answers.
C1_AtMostOneRefresh ==
  \A p \in Procs :
    (InApiRequest(p) /\ proc[p].call.requiresAuth)
      => (proc[p].nRefresh <= 1 /\ proc[p].nRequests <= 2)

\* C2: once the re-issued request (the second one) of a call has been
\* answered, the call has returned: no further refresh, no further retry.
C2_RetryResultReturned ==
  \A p \in Procs : proc[p].nAnswered >= 2 => ~InApiRequest(p)

\* C3: when an authenticated request is answered 401 and the refresh fails
\* (the exchange throws, answers non-2xx, or no refresh token is stored),
\* the step clears the three keys, apiRequest returns the session-expired
\* failure with status 401, and the request is not re-issued.
C3_RefreshFailureClearsSession ==
  [][\A p \in Procs :
       (InApiRequest(p) /\ proc'[p] # proc[p]
          /\ proc'[p].lastRefresh \in {"throws", "non2xx", "noToken"})
         => /\ Cleared(localStorage')
            /\ getTokens(localStorage') = null
            /\ getStoredUser(localStorage') = null
            /\ proc'[p].pc = "done"
            /\ proc'[p].nRequests = proc[p].nRequests
            /\ proc'[p].nRefresh = proc[p].nRefresh
            /\ proc[p].opName \in {"apiRequest", "getCurrentUser", "login"}
                 => proc'[p].ret = SessionExpired
            /\ proc[p].opName = "checkSession"
                 => proc'[p].ret = proc[p].cachedUser]_vars

C3_Witness ==
  \E p \in Procs :
    /\ proc[p].pc = "done"
    /\ proc[p].opName = "apiRequest"
    /\ proc[p].lastRefresh = "non2xx"
    /\ proc[p].ret = SessionExpired
    /\ proc[p].nRequests = 1
    /\ Cleared(localStorage)

\* C4: an operation whose refresh exchange answered non-2xx has emitted
\* logged-out exactly once when it returns.
C4_LoggedOutExactlyOnce ==
  \A p \in Procs :
    (proc[p].pc = "done" /\ proc[p].lastRefresh = "non2xx")
      => Count(p, "auth:logged-out") = 1

\* C5: when the refresh exchange succeeds, the step stores the pair the
\* refresh returned (setTokens, tokens-updated dispatched) and re-issues the
\* original request with 'Bearer ' + the new access token.
C5_RetryCarriesNewToken ==
  [][\A p \in Procs :
       (RefreshAnswered(p) /\ ~proc'[p].answer.throws /\ ok(proc'[p].answer)
          /\ proc'[p].answer.json # thrown)
         => LET newTokens == proc'[p].answer.json
            IN /\ getTokens(localStorage')
                    = [access_token |-> newTokens.access_token,
                       refresh_token |-> newTokens.refresh_token]
               /\ proc'[p].emitted
                    = Append(proc[p].emitted, [type |-> "auth:tokens-updated", detail |-> null])
               /\ proc'[p].pc = "awaitFetch"
               /\ proc'[p].nRequests = proc[p].nRequests + 1
               /\ proc'[p].inflight.url = buildUrl(proc[p].call.endpoint)
               /\ proc'[p].inflight.method = proc[p].call.method
               /\ "Authorization" \in DOMAIN proc'[p].inflight.headers
               /\ proc'[p].inflight.headers["Authorization"]
                    = "Bearer " \o newTokens.access_token]_vars

C5_Witness ==
  \E p \in Procs :
    /\ proc[p].pc = "awaitFetch"
    /\ proc[p].lastRefresh = "ok"
    /\ proc[p].nRequests = 2
    /\ proc[p].answer.json \in TokenPairs
    /\ proc[p].inflight.headers["Authorization"] = "Bearer " \o proc[p].answer.json.access_token
    /\ localStorage[STORAGE_KEYS.ACCESS_TOKEN] = proc[p].answer.json.access_token

\* C6: a call with requiresAuth = false never starts a refresh exchange and
\* apiRequest itself leaves the storage alone; a 401 comes back as an
\* ordinary failure result with status 401.
C6_NoAuthNoRefresh ==
  [][\A p \in Procs :
       (Answered(p) /\ ~proc[p].call.requiresAuth)
         => /\ proc'[p].pc # "awaitRefresh"
            /\ proc'[p].nRefresh = 0
            /\ proc'[p].lastRefresh = "none"
            /\ proc[p].opName = "apiRequest"
                 => /\ localStorage' = localStorage
                    /\ proc'[p].emitted = proc[p].emitted
                    /\ proc'[p].pc = "done"
            /\ proc'[p].answer.status = 401
                 => /\ proc[p].opName \in {"apiRequest", "login"}
                      => /\ proc'[p].ret = [success |-> FALSE,
                                            error |-> errorMessage(proc'[p].answer),
                                            status |-> 401]
                         /\ localStorage' = localStorage
                         /\ proc'[p].emitted = proc[p].emitted]_vars

C6_Witness ==
  \E p \in Procs :
    /\ proc[p].pc = "done"
    /\ proc[p].opName = "apiRequest"
    /\ ~proc[p].call.requiresAuth
    /\ proc[p].answer.status = 401
    /\ proc[p].ret.status = 401
    /\ proc[p].nRefresh = 0
    /\ getTokens(localStorage) # null
    /\ getStoredUser(localStorage) # null

\* C8: when fetch throws, apiRequest returns a failure result without a
\* status, starts no refresh and leaves tokens and profile as they were.
C8_NetworkFailureResult ==
  [][\A p \in Procs :
       (Answered(p) /\ proc'[p].answer.throws)
         => /\ proc'[p].pc # "awaitRefresh"
            /\ proc'[p].nRefresh = proc[p].nRefresh
            /\ proc'[p].nRequests = proc[p].nRequests
            /\ proc[p].opName \in {"apiRequest", "getCurrentUser", "checkSession"}
                 => /\ localStorage' = localStorage
                    /\ proc'[p].emitted = proc[p].emitted
                    /\ proc'[p].pc = "done"
            /\ (proc[p].opName \in {"apiRequest", "getCurrentUser"}
                  \/ (proc[p].opName = "login" /\ proc[p].stage = "token"))
                 => /\ proc'[p].ret = [success |-> FALSE,
                                       error |-> proc'[p].answer.json.message]
                    /\ "status" \notin DOMAIN proc'[p].ret
                    /\ proc[p].stage = "token" => localStorage' = localStorage]_vars

C8_Witness ==
  \E p \in Procs :
    /\ proc[p].pc = "done"
    /\ proc[p].opName = "apiRequest"
    /\ proc[p].call.requiresAuth
    /\ proc[p].answer.throws
    /\ ~proc[p].ret.success
    /\ "status" \notin DOMAIN proc[p].ret
    /\ getTokens(localStorage) # null
    /\ getStoredUser(localStorage) # null

\* C10: in every reachable state a cached profile is stored only if a full
\* token pair is stored.
C10_ProfileOnlyWithTokens ==
  localStorage[STORAGE_KEYS.USER] # noItem => getTokens(localStorage) # null

\* C7: the request apiRequest builds carries an Authorization header if and
\* only if requiresAuth is true and both tokens are stored and non-empty at
\* that moment; when present it is 'Bearer ' + the stored access token.
C7_AuthorizationHeader ==
  (sm.op = "apiRequest" /\ sm.outcome = "returned")
    => LET headers == sm.value.v.headers
           accessToken == localStorage[STORAGE_KEYS.ACCESS_TOKEN]
           refreshToken == localStorage[STORAGE_KEYS.REFRESH_TOKEN]
           fullPair == accessToken \notin {noItem, ""} /\ refreshToken \notin {noItem, ""}
       IN /\ "Authorization" \in DOMAIN headers <=> (sm.args.requiresAuth /\ fullPair)
          /\ "Authorization" \in DOMAIN headers
               => headers["Authorization"] = "Bearer " \o accessToken

\* a request with requiresAuth built while only the access token is stored:
\* no header is sent
C7_Witness ==
  /\ sm.op = "apiRequest"
  /\ sm.outcome = "returned"
  /\ sm.args.requiresAuth
  /\ localStorage[STORAGE_KEYS.ACCESS_TOKEN] \notin {noItem, ""}
  /\ localStorage[STORAGE_KEYS.REFRESH_TOKEN] = noItem
  /\ "Authorization" \notin DOMAIN sm.value.v.headers

\* C9: no Session Manager operation raises to its caller when the store
\* fails on a read or a write.
C9_SessionManagerNeverRaises ==
  sm.op \in {"getTokens", "setTokens", "clearTokens", "getStoredUser", "setStoredUser",
             "isAuthenticated", "hasPermission"}
    => sm.outcome = "returned"

\* C11: whenever isAuthenticated() is false, hasPermission(name) is false
\* for every name.
C11_NoPermissionWhenAnonymous ==
  ~isAuthenticated(localStorage)
    => \A name \in PermissionNames : ~hasPermission(localStorage, name)

\* C12: for an authenticated user with a cached profile, hasPermission(name)
\* is true exactly when name is in the permission list or the list contains
\* "admin"; it is false when the serialized list does not parse.
C12_HasPermission ==
  (sm.op = "hasPermission" /\ sm.outcome = "returned"
     /\ localStorage[STORAGE_KEYS.ACCESS_TOKEN] \notin {noItem, ""}
     /\ localStorage[STORAGE_KEYS.REFRESH_TOKEN] \notin {noItem, ""}
     /\ localStorage[STORAGE_KEYS.USER] # noItem)
    => LET userJson == localStorage[STORAGE_KEYS.USER]
           name == sm.args.permission
       IN /\ userJson = JSONstringify(UserViewer) => (sm.value.v <=> name = "reports.view")
          /\ userJson = JSONstringify(UserAdmin) => sm.value.v
          /\ userJson = JSONstringify(UserNoPermissions) => ~sm.value.v
          /\ userJson = JSONstringify(UserMalformed) => ~sm.value.v

\* an admin asked for a permission that is not in the list
C12_Witness ==
  /\ sm.op = "hasPermission"
  /\ sm.outcome = "returned"
  /\ isAuthenticated(localStorage)
  /\ localStorage[STORAGE_KEYS.USER] = JSONstringify(UserAdmin)
  /\ sm.args.permission = "reports.edit"
  /\ sm.value.v

\* both tokens are stored and non-empty
FullPairStored(ls) ==
  /\ ls[STORAGE_KEYS.ACCESS_TOKEN] \notin {noItem, ""}
  /\ ls[STORAGE_KEYS.REFRESH_TOKEN] \notin {noItem, ""}

\* C14: clearTokens called from any prior state leaves getTokens() and
\* getStoredUser() absent, and a second call right after leaves the storage
\* as the first one left it.
C14_ClearSessionIdempotent ==
  [][(sm'.op = "clearTokens" /\ sm'.outcome = "returned")
       => /\ getTokens(localStorage') = null
          /\ getStoredUser(localStorage') = null
          /\ Cleared(localStorage')
          /\ (sm.op = "clearTokens" /\ sm.outcome = "returned")
               => localStorage' = localStorage]_vars

C14_Witness ==
  /\ sm.op = "clearTokens"
  /\ sm.outcome = "returned"
  /\ sm.events = <<"auth:logged-out">>
  /\ getTokens(localStorage) = null
  /\ getStoredUser(localStorage) = null

\* C15: setTokens(pair) with both tokens non-empty, immediately followed by
\* getTokens(), returns the same access token and the same refresh token.
C15_TokensRoundTrip ==
  [][(/\ sm.op = "setTokens" /\ sm.outcome = "returned"
      /\ sm.args.access_token # "" /\ sm.args.refresh_token # ""
      /\ sm'.op = "getTokens" /\ sm'.outcome = "returned")
       => sm'.value.v = [access_token |-> sm.args.access_token,
                         refresh_token |-> sm.args.refresh_token]]_vars

C15_Witness ==
  /\ sm.op = "setTokens"
  /\ sm.outcome = "returned"
  /\ sm.args.access_token = "a2"
  /\ sm.args.refresh_token = "r2"
  /\ getTokens(localStorage) = [access_token |-> "a2", refresh_token |-> "r2"]

\* C16: isAuthenticated() is true if and only if both tokens are stored and
\* non-empty; with only one of them stored getTokens() returns absent.
C16_AuthenticatedIffFullPair ==
  /\ (sm.op = "isAuthenticated" /\ sm.outcome = "returned")
       => (sm.value.v <=> FullPairStored(localStorage))
  /\ (sm.op = "getTokens" /\ sm.outcome = "returned")
       => (sm.value.v # null <=> FullPairStored(localStorage))

\* the access token alone is stored: not authenticated
C16_Witness ==
  /\ sm.op = "isAuthenticated"
  /\ sm.outcome = "returned"
  /\ localStorage[STORAGE_KEYS.ACCESS_TOKEN] \notin {noItem, ""}
  /\ localStorage[STORAGE_KEYS.REFRESH_TOKEN] = noItem
  /\ ~sm.value.v

\* positions of the events of one type in the list of p
Positions(p, type) ==
  { i \in 1..Len(proc[p].emitted) : proc[p].emitted[i].type = type }

\* C17: a login that returns success leaves the session authenticated and
\* the fetched profile cached, and has emitted logged-in exactly once, with
\* the profile as payload, after its tokens-updated and user-updated.
C17_SuccessfulLogin ==
  \A p \in Procs :
    (proc[p].opName = "login" /\ proc[p].pc = "done" /\ proc[p].ret.success)
      => LET n == Len(proc[p].emitted)
         IN /\ isAuthenticated(localStorage)
            /\ getStoredUser(localStorage) = proc[p].ret.data
            /\ Positions(p, "auth:logged-in") = {n}
            /\ proc[p].emitted[n].detail = proc[p].ret.data
            /\ proc[p].emitted[n].detail = proc[p].answer.json
            /\ Positions(p, "auth:tokens-updated") # {}
            /\ Positions(p, "auth:user-updated") # {}
            /\ \A i \in Positions(p, "auth:tokens-updated"),
                  j \in Positions(p, "auth:user-updated") : i < j /\ j < n

\* the login of the end-to-end scenario: tokens, then the profile of a
\* viewer, no refresh
C17_Witness ==
  /\ proc["p1"].opName = "login"
  /\ proc["p1"].pc = "done"
  /\ proc["p1"].ret = [success |-> TRUE, data |-> UserViewer]
  /\ Len(proc["p1"].emitted) = 3
  /\ isAuthenticated(localStorage)
  /\ hasPermission(localStorage, "reports.view")
  /\ ~hasPermission(localStorage, "admin")

\* the event a write of the Session Manager emits
Emits(op) ==
  CASE op = "setTokens" -> "auth:tokens-updated"
    [] op = "clearTokens" -> "auth:logged-out"
    [] op = "setStoredUser" -> "auth:user-updated"

\* the listeners of the type, in subscription order
Subscribed(type) == SelectSeq(window.listeners, LAMBDA l : l.type = type)

\* C13: every listener called by clearTokens finds the three keys removed,
\* hence tokens and profile both absent, and so does page code that reads
\* the session after clearTokens returned.
C13_ClearSessionAtomic ==
  /\ sm.op = "clearTokens"
       => /\ Cleared(localStorage)
          /\ \A i \in 1..Len(window.calls) :
               /\ window.calls[i].type = "auth:logged-out"
               /\ Cleared(window.calls[i].ls)
               /\ getTokens(window.calls[i].ls) = null
               /\ getStoredUser(window.calls[i].ls) = null
  /\ (sm.op = "read" /\ sm.after = "clearTokens")
       => sm.tokens = null /\ sm.user = null

\* clearTokens on a session with tokens and profile, two logged-out
\* listeners called
C13_Witness ==
  /\ sm.op = "clearTokens"
  /\ getTokens(sm.before) # null
  /\ getStoredUser(sm.before) # null
  /\ Len(window.calls) = 2

\* C18: when setTokens, clearTokens or setStoredUser has returned, the
\* listeners subscribed to the event it emits have been called, each once,
\* in subscription order, each finding the storage as the write left it.
C18_SynchronousOrderedDelivery ==
  sm.op \in {"setTokens", "clearTokens", "setStoredUser"}
    => LET expected == Subscribed(Emits(sm.op))
       IN /\ Len(window.calls) = Len(expected)
          /\ \A i \in 1..Len(expected) :
               /\ window.calls[i].id = expected[i].id
               /\ window.calls[i].type = Emits(sm.op)
               /\ window.calls[i].ls = localStorage

\* setTokens with two tokens-updated listeners subscribed in the order 2, 1
\* and a logged-out listener between them
C18_Witness ==
  /\ sm.op = "setTokens"
  /\ Len(window.listeners) = 3
  /\ window.listeners[1].id = 2 /\ window.listeners[1].type = "auth:tokens-updated"
  /\ window.listeners[2].type = "auth:logged-out"
  /\ window.listeners[3].id = 1 /\ window.listeners[3].type = "auth:tokens-updated"
  /\ Len(window.calls) = 2
  /\ window.calls[1].id = 2
  /\ window.calls[2].id = 1

\* the transition from -> to is the oldest animation in flight
InFlight(from, to) ==
  /\ card.timelines # <<>>
  /\ Head(card.timelines).from = from
  /\ Head(card.timelines).to = to

\* the login of the form has returned success
LoginSucceeded(pr) ==
  pr.opName = "login" /\ pr.pc = "done" /\ pr.ret.success

\* C19: while the transition login -> forgot is in flight, the step in
\* which the form's login succeeds (the request of login -> logged) leaves
\* the card component as it is, and when login -> forgot then completes,
\* forgot is the current card and the only one shown.
C19_RequestInFlightIsNoOp ==
  [][/\ (InFlight("login", "forgot")
           /\ ~LoginSucceeded(proc["p1"]) /\ LoginSucceeded(proc'["p1"]))
          => card' = card
     /\ (InFlight("login", "forgot")
           /\ LoginSucceeded(proc["p1"])
           /\ card'.timelines = Tail(card.timelines))
          => card'.currentCard = "forgot" /\ Shown(card') = {"forgot"}]_vars

\* C20: with no animation in flight exactly one card is shown.
C20_ExactlyOneCardAtRest ==
  card.timelines = <<>> => Cardinality(Shown(card)) = 1

\* C21: animateSlide leaves the page as it is when isAnimating is true
\* or the target is the current card, and sets isAnimating otherwise;
\* isAnimating is true exactly while the slide's timeline runs and is cleared
\* only by the completion of the timeline, in the step that makes the target
\* the current card; a busy slide eventually is not busy.
C21_SlideBusyFlag ==
  /\ [](\A to \in {"login", "reset"} :
          IF page.slide.isAnimating \/ page.slide.currentCard = to
            THEN animateSlide(Page, to) = Page
            ELSE animateSlide(Page, to).pg.slide.isAnimating)
  /\ [](page.slide.isAnimating <=> page.slide.phase # "none")
  /\ [][/\ (page.slide.isAnimating /\ ~page'.slide.isAnimating)
             => page.slide.phase = "enter" /\ page'.slide.currentCard = page.slide.to
        /\ page'.slide.currentCard # page.slide.currentCard
             => page.slide.isAnimating /\ ~page'.slide.isAnimating]_vars
  /\ (page.slide.isAnimating ~> ~page.slide.isAnimating)

\* a slide to the reset card has run to its end
C21_Witness ==
  /\ page.slide.currentCard = "reset"
  /\ ~page.slide.isAnimating
  /\ card.display["reset"]
  /\ ~card.display["login"]

\* the transitions the form requests
FormTransitions ==
  { <<"login", "logged">>, <<"logged", "login">>, <<"login", "forgot">>,
    <<"forgot", "login">> }

C23_SettlesOnNotifiedCard ==
  (card.timelines = <<>> /\ page.driven # "none")
    => card.currentCard = page.driven /\ Shown(card) = {page.driven}

\* the transitions the card may make
AllowedTransitions ==
  { <<"login", "logged">>, <<"logged", "login">>, <<"login", "forgot">>,
    <<"forgot", "login">>, <<"forgot", "reset">> }

\* the step delivers a notification of the type
Notified(type) ==
  \E p \in Procs :
    \E i \in 1..Len(proc'[p].emitted) :
      /\ i > Len(proc[p].emitted) \/ proc[p].pc \in {"idle", "done"}
      /\ proc'[p].emitted[i].type = type

\* C24: a step that changes the current card makes an allowed transition or
\* follows a logged-in / logged-out notification of the step to the logged /
\* login card; a step that starts an animated transition starts it from the
\* card that is current at that moment.
C24_AllowedTransitionsOnly ==
  [][/\ card'.currentCard # card.currentCard
          => \/ <<card.currentCard, card'.currentCard>> \in AllowedTransitions
             \/ card'.currentCard = "logged" /\ Notified("auth:logged-in")
             \/ card'.currentCard = "login" /\ Notified("auth:logged-out")
     /\ Len(card'.timelines) > Len(card.timelines)
          => card'.timelines[Len(card'.timelines)].from = card'.currentCard]_vars

\* C25: an authGuard whose session check ended with a failed refresh has
\* opened the login popup and returns false.
C25_GuardDeniesExpiredSession ==
  \A p \in Procs :
    (proc[p].opName = "authGuard" /\ proc[p].pc = "done"
       /\ proc[p].lastRefresh \in {"throws", "non2xx", "noToken"})
      => proc[p].ret = [granted |-> FALSE] /\ page.popup

\* C26: a refresh exchange in flight is ended by its own answer only, while
\* the frame of the other operation, its refresh exchange included, stays as
\* it is; when the answer is a success the stored pair is the one of that
\* answer, whatever another refresh stored before.
C26_RefreshNotDeduplicated ==
  [][\A p \in Procs :
       (proc[p].pc = "awaitRefresh" /\ proc'[p] # proc[p])
         => /\ proc'[p].answer \in Answers(proc[p].inflight)
            /\ \A q \in Procs \ {p} : proc'[q] = proc[q]
            /\ proc'[p].lastRefresh = "ok"
                 => getTokens(localStorage')
                      = [access_token |-> proc'[p].answer.json.access_token,
                         refresh_token |-> proc'[p].answer.json.refresh_token]]_vars

\* two refresh exchanges in flight at the same time, one per operation
C26_Witness ==
  /\ \A p \in Procs : proc[p].pc = "awaitRefresh" /\ proc[p].nRefresh = 1
  /\ proc["p1"].opName = "apiRequest"
  /\ proc["p2"].opName = "apiRequest"

\* the login calls of the page whose outcome the submit handler still waits for
LoginCalls == {p \in Procs : proc[p].opName = "login" /\ proc[p].pc # "done"}

Satisfies(r, filters, lower(_)) ==
  /\ Has(filters, "categoryId") => r.category_id = filters.categoryId
  /\ (Has(filters, "categoryNames") /\ filters.categoryNames # <<>>)
       => \E i \in 1..Len(filters.categoryNames) :
            stringIncludes(lower(IF Has(r, "category_name") THEN r.category_name ELSE <<>>),
                     filters.categoryNames[i])
  /\ Has(filters, "search") => stringIncludes(toLowerCase(r.name), toLowerCase(filters.search))
  /\ Has(filters, "active") => r.active = filters.active

asWritten(s) == s

\* the reports of the cache, in their order, that satisfy the filters of the
\* last call
Selected(lower(_)) ==
  LET rs == page.reports
      Test(r) == Satisfies(r, rs.filters, lower)
  IN IF rs.filters = null THEN rs.reportsCache.array
                         ELSE SelectSeq(rs.reportsCache.array, Test)

\* C28, as stated: the call returns the cached reports, in their order,
\* whose category id equals the one supplied, whose category name contains
\* one of the selected names, whose name contains the search text whatever
\* the case, and whose active flag equals the one supplied; the cache stays
\* as it is.
C28_AsStated ==
  /\ [](page.reports.result # null
          => page.reports.result = [success |-> TRUE, data |-> Selected(asWritten)])
  /\ [][page'.reports.reportsCache = page.reports.reportsCache]_vars

\* C28, amended: the same, the category name being put in lower case (and
\* taken as empty when the report has none) before the selected names, as
\* supplied, are looked for in it.
C28_FilteredReports ==
  /\ [](page.reports.result # null
          => page.reports.result = [success |-> TRUE, data |-> Selected(toLowerCase)])
  /\ [][page'.reports.reportsCache = page.reports.reportsCache]_vars

\* a call with the four filters that keeps the second of two cached reports
C28_Witness ==
  /\ Len(page.reports.reportsCache.array) = 2
  /\ page.reports.filters # null
  /\ DOMAIN page.reports.filters = {"categoryId", "categoryNames", "search", "active"}
  /\ page.reports.filters.categoryNames # <<>>
  /\ page.reports.filters.search # <<>>
  /\ page.reports.result # null
  /\ page.reports.result.data = <<page.reports.reportsCache.array[2]>>
  /\ page.reports.reportsCache.array[1] # page.reports.reportsCache.array[2]

\* C29: the cached reports and the cached categories are answers to
\* requests sent since the last authentication change the display handled,
\* and so is what the list was given to render since that change.
C29_NoStaleResponse ==
  LET rs == page.reports
  IN /\ rs.reportsCache # null => rs.reportsIssued = rs.epoch
     /\ rs.categoriesCache # null => rs.categoriesIssued = rs.epoch
     /\ (rs.rendered # null /\ rs.rendered.at = rs.epoch) => rs.rendered.issued = rs.epoch

\* C30: the step in which a login returns the failure of its profile fetch
\* leaves no token and no profile in the storage, and the login has emitted
\* no logged-in.
C30_LoginProfileFailure ==
  [][\A p \in Procs :
       (/\ proc[p].opName = "login"
        /\ proc[p].stage = "user"
        /\ proc[p].pc # "done"
        /\ proc'[p].pc = "done")
         => \/ proc'[p].ret.success
            \/ /\ getTokens(localStorage') = null
               /\ ~isAuthenticated(localStorage')
               /\ getStoredUser(localStorage') = null
               /\ \A k \in StorageKeys : getItem(localStorage', k) = noItem
               /\ \A i \in 1..Len(proc'[p].emitted) :
                    proc'[p].emitted[i].type # "auth:logged-in"]_vars

\* a login that stored its tokens and returned the failure of its profile fetch
C30_Witness ==
  /\ proc["p1"].opName = "login"
  /\ proc["p1"].stage = "user"
  /\ proc["p1"].pc = "done"
  /\ ~proc["p1"].ret.success
  /\ Positions("p1", "auth:tokens-updated") # {}
  /\ Positions("p1", "auth:logged-out") # {}
  /\ ~isAuthenticated(localStorage)

\* C31: every step of a login up to the answer to POST /login, the step in
\* which the login returns included, leaves the storage as it is, emits
\* nothing and starts no refresh exchange; the only request of the login is
\* POST /login; the login returns at that stage only with a failure, which
\* is the failure of the answer.
C31_FailedLoginChangesNothing ==
  [][\A p \in Procs :
       (proc'[p].opName = "login" /\ proc'[p].stage = "token" /\ proc'[p] # proc[p])
         => /\ localStorage' = localStorage
            /\ proc'[p].emitted = <<>>
            /\ proc'[p].nRefresh = 0
            /\ proc'[p].nRequests = 1
            /\ proc'[p].lastRefresh = "none"
            /\ proc'[p].call.endpoint = AUTH_ENDPOINTS.LOGIN
            /\ proc'[p].pc \in {"awaitFetch", "done"}
            /\ proc'[p].pc = "done"
                 => /\ ~proc'[p].ret.success
                    /\ ~proc'[p].answer.throws /\ ~ok(proc'[p].answer)
                         => proc'[p].ret.status = proc'[p].answer.status]_vars

\* a login refused with 401 has returned, in a page that holds a session
C31_Witness ==
  /\ proc["p1"].opName = "login"
  /\ proc["p1"].stage = "token"
  /\ proc["p1"].pc = "done"
  /\ proc["p1"].answer.status = 401
  /\ ~proc["p1"].answer.throws
  /\ isAuthenticated(localStorage)
  /\ getStoredUser(localStorage) # null

\* C32: a logout sends POST /logout only while a refresh token is stored,
\* with that token as body and without an Authorization header, and starts
\* no refresh exchange; the step in which it returns, whatever the answer,
\* leaves no token and no profile in the storage, and the logout has
\* emitted logged-out once and nothing else.
C32_LogoutCleansSession ==
  [][\A p \in Procs :
       (proc'[p].opName = "logout" /\ proc'[p] # proc[p])
         => /\ proc'[p].nRefresh = 0
            /\ proc'[p].lastRefresh = "none"
            /\ proc'[p].pc \in {"awaitFetch", "done"}
            /\ proc'[p].pc = "awaitFetch"
                 => /\ ~Falsy(getItem(localStorage, STORAGE_KEYS.REFRESH_TOKEN))
                    /\ proc'[p].call.endpoint = AUTH_ENDPOINTS.LOGOUT
                    /\ proc'[p].nRequests = 1
                    /\ proc'[p].inflight.body
                         = [refresh_token |-> getItem(localStorage, STORAGE_KEYS.REFRESH_TOKEN)]
                    /\ "Authorization" \notin DOMAIN proc'[p].inflight.headers
                    /\ proc'[p].emitted = <<>>
                    /\ localStorage' = localStorage
            /\ proc'[p].pc = "done"
                 => /\ \A k \in StorageKeys : getItem(localStorage', k) = noItem
                    /\ getTokens(localStorage') = null
                    /\ getStoredUser(localStorage') = null
                    /\ Len(proc'[p].emitted) = 1
                    /\ proc'[p].emitted[1].type = "auth:logged-out"]_vars

\* a logout has returned after its POST /logout failed on the network
C32_Witness ==
  /\ proc["p1"].opName = "logout"
  /\ proc["p1"].pc = "done"
  /\ proc["p1"].nRequests = 1
  /\ proc["p1"].answer # null
  /\ proc["p1"].answer.throws
  /\ Positions("p1", "auth:logged-out") = {1}
  /\ ~isAuthenticated(localStorage)

\* C33: with no slide animation in flight, the card the slide component
\* holds as current is, of the login and the reset card, the one displayed;
\* and a slide request made then towards a card that is not displayed
\* starts a slide.
C33_SlideCurrentIsDisplayed ==
  /\ [](~page.slide.isAnimating
          => Shown(card) \cap {"login", "reset"} = {page.slide.currentCard})
  /\ [][\A to \in {"login", "reset"} :
          (/\ ~page.slide.isAnimating
           /\ to \notin Shown(card)
           /\ card' = animateSlide(Page, to).cd
           /\ page' = animateSlide(Page, to).pg)
            => page'.slide.isAnimating]_vars

\* C34: while the navigation button carries is-active, the overflow of the
\* body is hidden.
C34_OpenMenuLocksScroll ==
  page.nav.active => page.nav.overflow = "hidden"

====
